---- MODULE Spec2Model ----
(***************************************************************************)
(* Model of ModelClassVisitor (lib/plugin/visitors/model-class.visitor.ts) *)
(* : the per-class property scan, the per-property metadata record built   *)
(* by createDecoratorObjectLiteralExpr, and the enum resolver.             *)
(*                                                                         *)
(* An emitted object literal is a sequence of entries [key, val]; a value  *)
(* is a record [tag, s, elems, mem] (tag names the kind of expression, s   *)
(* its text, elems the elements of an array literal, mem the members of a  *)
(* nested object literal).  A call that raises returns [ok |-> FALSE].     *)
(***************************************************************************)
EXTENDS Integers, Sequences, FiniteSets, TLC

VARIABLES pc, className, options, members, metadata, provider, call, ret

vars == <<pc, className, options, members, metadata, provider, call, ret>>

(***************************************************************************)
(* Bounds                                                                  *)
(***************************************************************************)
MaxProps == 3
MaxExplicit == 2
MaxExamples == 2
MaxUnion == 3
MaxMembers == 2
MaxDepth == 2

(***************************************************************************)
(* Emitted expressions                                                     *)
(***************************************************************************)
Val(tag, s) == [tag |-> tag, s |-> s, elems |-> <<>>, mem |-> <<>>]

Entry(key, val) == [key |-> key, val |-> val]

Ok(assignments) == [ok |-> TRUE, val |-> assignments]

Throw == [ok |-> FALSE, val |-> <<>>]

createBooleanLiteral(flag) == Val("bool", IF flag THEN "true" ELSE "false")

hasPropertyKey(key, existingProperties) ==
    \E i \in DOMAIN existingProperties : existingProperties[i].key = key

\* Rewrites an import("...") qualifier of a type reference to a require("...")
\* relative to the host file; a bare name is left as it is.
replaceImportPath(typeReference) ==
    CASE typeReference = "import(p).Cat" -> "require(p).Cat"
      [] typeReference = "import(p).Role" -> "require(p).Role"
      [] OTHER -> typeReference

\* First decorator whose name is one of names.
getDecoratorOrUndefinedByNames(names, decorators) ==
    LET hits == {i \in DOMAIN decorators : decorators[i].name \in names}
    IN IF hits = {} THEN [some |-> FALSE, args |-> <<>>]
       ELSE LET first == CHOOSE i \in hits : \A j \in hits : i <= j
            IN [some |-> TRUE, args |-> decorators[first].args]

(***************************************************************************)
(* Type handles of the type checker: k is the category the checker puts    *)
(* the type in, name its text, types its constituents (union), its type    *)
(* argument (array) or its parent enum (union of the members of an enum).  *)
(***************************************************************************)
Type(k, name, types) == [k |-> k, name |-> name, types |-> types]

NoType == Type("none", "", <<>>)

isAutoGeneratedTypeUnion(type) == type.k = "typeUnion"

extractTypeArgumentIfArray(type) ==
    IF type.k = "array"
    THEN IF type.types = <<>>
         THEN [some |-> FALSE, type |-> NoType, isArray |-> FALSE]
         ELSE [some |-> TRUE, type |-> type.types[1], isArray |-> TRUE]
    ELSE [some |-> TRUE, type |-> type, isArray |-> FALSE]

isEnum(type) == type.k = "enum"

isAutoGeneratedEnumUnion(type) ==
    IF type.k = "enumUnion" THEN type.types[1] ELSE NoType

getText(type) == type.name

(***************************************************************************)
(* createLiteralFromAnyValue: an example value is a scalar or an array of  *)
(* example values.                                                         *)
(***************************************************************************)
RECURSIVE createLiteralFromAnyValue(_)
createLiteralFromAnyValue(item) ==
    IF item.isArray
    THEN [tag |-> "array", s |-> "",
          elems |-> [i \in DOMAIN item.items |->
                        createLiteralFromAnyValue(item.items[i])],
          mem |-> <<>>]
    ELSE Val("primitive", item.s)

\* Mutant: 'examples' only from three examples on.
exampleAssignmentOffByOne(examples) ==
    IF Len(examples) <= 2
    THEN <<Entry("example", createLiteralFromAnyValue(examples[1]))>>
    ELSE <<Entry("examples", createLiteralFromAnyValue(
               [isArray |-> TRUE, s |-> "", items |-> examples]))>>

\* The assignment for a non-empty sequence of extracted examples.
exampleAssignment(examples) ==
    IF Len(examples) = 1
    THEN <<Entry("example", createLiteralFromAnyValue(examples[1]))>>
    ELSE <<Entry("examples", createLiteralFromAnyValue(
               [isArray |-> TRUE, s |-> "", items |-> examples]))>>

createDescriptionAndExamplePropertyAssigments(node, existingProperties, opts, sourceFile) ==
    IF ~opts.introspectComments \/ ~sourceFile
    THEN <<>>
    ELSE LET comments == node.doc.comments
             examples == node.doc.examples
             keyOfComment == opts.dtoKeyOfComment
             description ==
                 IF ~hasPropertyKey(keyOfComment, existingProperties) /\ comments # ""
                 THEN <<Entry(keyOfComment, Val("string", comments))>>
                 ELSE <<>>
             hasExampleOrExamplesKey ==
                 \/ hasPropertyKey("example", existingProperties)
                 \/ hasPropertyKey("examples", existingProperties)
             example ==
                 IF ~hasExampleOrExamplesKey /\ Len(examples) # 0
                 THEN exampleAssignment(examples)
                 ELSE <<>>
         IN description \o example

createDefaultPropertyAssignment(node, existingProperties) ==
    IF hasPropertyKey("default", existingProperties)
    THEN <<>>
    ELSE IF node.initializer.kind = "none"
    THEN <<>>
    ELSE LET initializer == IF node.initializer.kind = "as"
                            THEN node.initializer.expression
                            ELSE node.initializer.text
         IN <<Entry("default", Val("expression", initializer))>>

\* Mutant: the first constituent stands for the union.
firstConstituent(types) == types[1]

\* types[types.length - 1]
lastConstituent(types) == types[Len(types)]

createEnumPropertyAssignment(node, existingProperties) ==
    IF hasPropertyKey("enum", existingProperties)
    THEN <<>>
    ELSE IF node.resolved.k = "none"
    THEN <<>>
    ELSE LET type0 == node.resolved
             type1 == IF isAutoGeneratedTypeUnion(type0)
                      THEN lastConstituent(type0.types)
                      ELSE type0
             tuple1 == extractTypeArgumentIfArray(type1)
             type2 == tuple1.type
             isEnumMember == type2.k = "enumMember"
         IN IF ~tuple1.some
            THEN <<>>
            ELSE LET secondPass == ~isEnum(type2) \/ isEnumMember
                     type3 == IF secondPass /\ ~isEnumMember
                              THEN isAutoGeneratedEnumUnion(type2)
                              ELSE type2
                     tuple2 == extractTypeArgumentIfArray(type3)
                     isArrayType == IF secondPass THEN tuple2.isArray
                                    ELSE tuple1.isArray
                     type4 == IF secondPass THEN tuple2.type ELSE type2
                     enumProperty ==
                         Entry("enum", Val("identifier",
                                           replaceImportPath(getText(type4))))
                 IN IF secondPass /\ type3.k = "none"
                    THEN <<>>
                    ELSE IF secondPass /\ ~tuple2.some
                    THEN <<>>
                    ELSE IF isArrayType
                    THEN <<enumProperty, Entry("isArray", Val("identifier", "true"))>>
                    ELSE <<enumProperty>>

addPropertyByValidationDecorator(decoratorName, propertyKey, decorators, assignments) ==
    LET decoratorRef == getDecoratorOrUndefinedByNames({decoratorName}, decorators)
    IN IF ~decoratorRef.some
       THEN assignments
       ELSE IF decoratorRef.args = <<>>
       THEN assignments
       ELSE Append(assignments,
                   Entry(propertyKey, Val("expression", decoratorRef.args[1])))

createValidationPropertyAssignments(node) ==
    LET decorators == node.decorators
        a1 == addPropertyByValidationDecorator("Min", "minimum", decorators, <<>>)
        a2 == addPropertyByValidationDecorator("Max", "maximum", decorators, a1)
        a3 == addPropertyByValidationDecorator("MinLength", "minLength", decorators, a2)
    IN addPropertyByValidationDecorator("MaxLength", "maxLength", decorators, a3)

(***************************************************************************)
(* Type resolver and record assembly (mutually recursive through inline    *)
(* object-literal types).  A type node is [kind, text, ref, types,         *)
(* members]: kind is the syntax kind, text its source text, ref the answer *)
(* of typeChecker.getTypeAtLocation + getTypeReferenceAsString for it      *)
(* ("<notype>": no type, "<noref>": no reference, "<throw>": raises).      *)
(***************************************************************************)
\* Mutant: the members of a literal are resolved with the enrichers enabled.
EnabledOptions ==
    [introspectComments |-> TRUE, classValidatorShim |-> TRUE,
     dtoKeyOfComment |-> "description"]

EmptyOptions ==
    [introspectComments |-> FALSE, classValidatorShim |-> FALSE, dtoKeyOfComment |-> ""]

isNullLike(type) == type.kind = "NullKeyword" \/ type.text = "null"

\* Mutant: the null-like member is never found.
nullableTypeNotFound(node) == 0

\* node.types.find(...): index of the first null-like member, 0 when none.
nullableType(node) ==
    LET hits == {i \in DOMAIN node.types : isNullLike(node.types[i])}
    IN IF hits = {} THEN 0 ELSE CHOOSE i \in hits : \A j \in hits : i <= j

RECURSIVE dropAt(_, _)
dropAt(seq, n) ==
    IF seq = <<>> THEN <<>>
    ELSE IF n = 1 THEN Tail(seq)
    ELSE <<Head(seq)>> \o dropAt(Tail(seq), n - 1)

\* node.types.filter((item) => item !== nullableType)
remainingTypes(node) ==
    IF nullableType(node) = 0 THEN node.types ELSE dropAt(node.types, nullableType(node))

Thunk(typeReference) == Val("arrow", typeReference)

ObjectThunk(propertyAssignments) ==
    [tag |-> "arrowObject", s |-> "", elems |-> <<>>, mem |-> propertyAssignments]

\* Mutant: a union is never handed to the type checker.
typeReferenceAssignmentButUnion(node) ==
    IF node.ref = "<throw>" THEN Throw
    ELSE IF node.kind = "UnionType" THEN Ok(<<>>)
    ELSE IF node.ref = "<notype>" THEN Ok(<<>>)
    ELSE IF node.ref = "<noref>" THEN Ok(<<>>)
    ELSE Ok(<<Entry("type", Thunk(replaceImportPath(node.ref)))>>)

\* The type checker's reference for a node that is neither an object literal
\* nor a union of one remaining member.
typeReferenceAssignment(node) ==
    IF node.ref = "<throw>" THEN Throw
    ELSE IF node.ref = "<notype>" THEN Ok(<<>>)
    ELSE IF node.ref = "<noref>" THEN Ok(<<>>)
    ELSE Ok(<<Entry("type", Thunk(replaceImportPath(node.ref)))>>)

RECURSIVE createTypePropertyAssignments(_, _)
RECURSIVE createDecoratorObjectLiteralExpr(_, _, _, _)

createTypePropertyAssignments(node, existingProperties) ==
    IF hasPropertyKey("type", existingProperties)
    THEN Ok(<<>>)
    ELSE IF node.kind = "TypeLiteral"
    THEN LET exprs == [i \in DOMAIN node.members |->
                          createDecoratorObjectLiteralExpr(
                              node.members[i], existingProperties, EmptyOptions, FALSE)]
         IN IF \E i \in DOMAIN node.members :
                   ~exprs[i].ok \/ node.members[i].name.kind = "none"
            THEN Throw
            ELSE Ok(<<Entry("type", ObjectThunk(
                        [i \in DOMAIN node.members |->
                            [name |-> node.members[i].name.text,
                             expr |-> exprs[i].val]]))>>)
    ELSE IF node.kind = "UnionType" /\ Len(remainingTypes(node)) = 1
    THEN LET remainingTypesProperties ==
                 createTypePropertyAssignments(remainingTypes(node)[1], existingProperties)
             isNullable == nullableType(node) # 0
         IN IF ~remainingTypesProperties.ok
            THEN Throw
            ELSE IF isNullable
            THEN Ok(Append(remainingTypesProperties.val,
                           Entry("nullable", createBooleanLiteral(TRUE))))
            ELSE Ok(remainingTypesProperties.val)
    ELSE typeReferenceAssignment(node)

createDecoratorObjectLiteralExpr(node, existingProperties, opts, sourceFile) ==
    LET isRequired == ~node.questionToken
        required == IF ~hasPropertyKey("required", existingProperties)
                    THEN <<Entry("required", createBooleanLiteral(isRequired))>>
                    ELSE <<>>
        typeAssignments == createTypePropertyAssignments(node.type, existingProperties)
        properties ==
            existingProperties \o required \o typeAssignments.val
              \o createDescriptionAndExamplePropertyAssigments(
                     node, existingProperties, opts, sourceFile)
              \o createDefaultPropertyAssignment(node, existingProperties)
              \o createEnumPropertyAssignment(node, existingProperties)
    IN IF ~typeAssignments.ok
       THEN Throw
       ELSE IF opts.classValidatorShim
       THEN Ok(properties \o createValidationPropertyAssignments(node))
       ELSE Ok(properties)

(***************************************************************************)
(* Inputs: type nodes, type handles, property nodes, explicit annotations  *)
(***************************************************************************)
TypeNode(kind, text, ref) ==
    [kind |-> kind, text |-> text, ref |-> ref, types |-> <<>>, members |-> <<>>]

UnionType(types, ref) ==
    [kind |-> "UnionType", text |-> "union", ref |-> ref, types |-> types,
     members |-> <<>>]

TypeLiteral(sigs) ==
    [kind |-> "TypeLiteral", text |-> "literal", ref |-> "Object", types |-> <<>>,
     members |-> sigs]

StringT == TypeNode("StringKeyword", "string", "String")
CatT == TypeNode("TypeReference", "Cat", "import(p).Cat")
NoRefT == TypeNode("TypeReference", "Foo", "<noref>")
NoTypeT == TypeNode("TypeReference", "Bar", "<notype>")
ThrowT == TypeNode("TypeReference", "Baz", "<throw>")
NullT == TypeNode("LiteralType", "null", "<noref>")
NullKeywordT == TypeNode("NullKeyword", "null", "<noref>")
AbsentT == TypeNode("undefined", "", "<noref>")

RoleE == Type("enum", "Role", <<>>)
ImportedRoleE == Type("enum", "import(p).Role", <<>>)
RoleMember == Type("enumMember", "Role.Admin", <<>>)
StringType == Type("other", "string", <<>>)
UndefinedType == Type("undefined", "undefined", <<>>)
RoleMembersUnion == Type("enumUnion", "Role.Admin | Role.User | undefined", <<RoleE>>)
ArrayOf(type) == Type("array", "Array", <<type>>)
BareArray == Type("array", "Array", <<>>)
TypeUnion(types) == Type("typeUnion", "union", types)

Name(kind, text) == [kind |-> kind, text |-> text]

NoDoc == [comments |-> "", examples |-> <<>>]
NoInitializer == [kind |-> "none", text |-> "", expression |-> ""]
Scalar(s) == [isArray |-> FALSE, s |-> s, items |-> <<>>]
Decorator(name, args) == [name |-> name, args |-> args]

\* A property declaration or signature with nothing but a name and a type.
Property(name, type) ==
    [kind |-> "PropertyDeclaration", decorators |-> <<>>, modifiers |-> {},
     name |-> name, questionToken |-> FALSE, type |-> type,
     initializer |-> NoInitializer, doc |-> NoDoc, resolved |-> StringType]

\* A member of an inline object literal that carries documentation, the four
\* validation decorators and an array-of-enum type.
Signature(name, optional, type) ==
    [Property(name, type) EXCEPT
        !.kind = "PropertySignature",
        !.questionToken = optional,
        !.decorators = <<Decorator("Min", <<"1">>), Decorator("Max", <<"9">>),
                         Decorator("MinLength", <<"2">>), Decorator("MaxLength", <<"8">>)>>,
        !.doc = [comments |-> "inner", examples |-> <<Scalar("x")>>],
        !.resolved = ArrayOf(RoleE)]

SeqsUpTo(S, n) == UNION {[1..k -> S] : k \in 0..n}

Signatures0 ==
    { Signature(Name("Identifier", "a"), FALSE, StringT),
      Signature(Name("Identifier", "b"), TRUE, CatT),
      Signature(Name("Identifier", "a"), FALSE, ThrowT),
      Signature(Name("none", ""), FALSE, StringT),
      Signature(Name("Identifier", "b"), FALSE, UnionType(<<StringT, NullT>>, "Object")) }

RECURSIVE TypeLiterals(_)
TypeLiterals(depth) ==
    IF depth = 1
    THEN {TypeLiteral(sigs) : sigs \in SeqsUpTo(Signatures0, MaxMembers)}
    ELSE LET inner == TypeLiterals(depth - 1)
         IN {TypeLiteral(<<Signature(Name("Identifier", "a"), FALSE, x)>>) : x \in inner}
            \cup {TypeLiteral(<<Signature(Name("Identifier", "a"), FALSE, x),
                               Signature(Name("Identifier", "b"), TRUE, StringT)>>) :
                      x \in inner}

AllTypeLiterals == UNION {TypeLiterals(d) : d \in 1..MaxDepth}

UnionConstituents ==
    {StringT, CatT, NullT, NullKeywordT, ThrowT,
     TypeLiteral(<<Signature(Name("Identifier", "a"), FALSE, StringT)>>)}

UnionTypes ==
    {UnionType(types, ref) :
        types \in (SeqsUpTo(UnionConstituents, MaxUnion) \ {<<>>}),
        ref \in {"<noref>", "Object", "<throw>"}}

TypeNodes ==
    {StringT, CatT, NoRefT, NoTypeT, ThrowT, NullT, AbsentT}
      \cup UnionTypes \cup AllTypeLiterals

BaseTypes ==
    {RoleE, ImportedRoleE, RoleMember, StringType, UndefinedType, RoleMembersUnion}

SimpleTypes ==
    BaseTypes \cup {ArrayOf(t) : t \in BaseTypes} \cup {BareArray, ArrayOf(ArrayOf(RoleE))}

TypeHandles ==
    {NoType} \cup SimpleTypes
      \cup {TypeUnion(<<a, b>>) : a \in SimpleTypes, b \in SimpleTypes}

Keys ==
    <<"required", "type", "nullable", "description", "example", "examples",
      "default", "enum", "isArray", "minimum", "maximum", "minLength", "maxLength">>

KeySet == {Keys[i] : i \in DOMAIN Keys}

Explicit(key) == Entry(key, Val("explicit", key))

\* The explicit annotations with the keys of S, in the order of Keys.
ExplicitOf(S) ==
    LET picked == SelectSeq(Keys, LAMBDA k : k \in S)
    IN [i \in DOMAIN picked |-> Explicit(picked[i])]

ExplicitAnnotations ==
    {ExplicitOf(S) : S \in {T \in SUBSET KeySet : Cardinality(T) <= MaxExplicit}}

Options(introspectComments, classValidatorShim) ==
    [introspectComments |-> introspectComments,
     classValidatorShim |-> classValidatorShim,
     dtoKeyOfComment |-> "description"]

AllOptions == {Options(i, v) : i \in BOOLEAN, v \in BOOLEAN}

ExampleItems ==
    {Scalar("1"), Scalar("2"),
     [isArray |-> TRUE, s |-> "", items |-> <<Scalar("1"), Scalar("2")>>]}

Docs ==
    {[comments |-> c, examples |-> e] :
        c \in {"", "text"}, e \in SeqsUpTo(ExampleItems, MaxExamples)}

\* Properties for which every resolver and enricher has something to say.
RichProperties ==
    {[Property(Name("Identifier", "x"), t) EXCEPT
         !.decorators = <<Decorator("Min", <<"1">>), Decorator("Max", <<>>),
                          Decorator("MinLength", <<"2">>), Decorator("MaxLength", <<"8">>),
                          Decorator("Min", <<"7">>)>>,
         !.initializer = [kind |-> "as", text |-> "5 as any", expression |-> "5"],
         !.doc = [comments |-> "text", examples |-> e],
         !.resolved = ArrayOf(RoleE)] :
        t \in {StringT, UnionType(<<CatT, NullT>>, "Object"),
               TypeLiteral(<<Signature(Name("Identifier", "a"), FALSE, StringT)>>)},
        e \in {<<>>, <<Scalar("1")>>, <<Scalar("1"), Scalar("2")>>}}

Call(node, existingProperties, opts, sourceFile) ==
    [node |-> node, existingProperties |-> existingProperties, options |-> opts,
     sourceFile |-> sourceFile]

\* The calls whose explicit annotations range over all keys.
IsPrecedenceCall(c) ==
    \E n \in RichProperties, e \in ExplicitAnnotations, o \in AllOptions :
        c = Call(n, e, o, TRUE)

\* The calls whose type expression ranges over all type nodes.
IsTypeCall(c) ==
    \E t \in TypeNodes, q \in BOOLEAN,
       e \in {ExplicitOf({}), ExplicitOf({"type"}), ExplicitOf({"nullable"}),
              ExplicitOf({"description"})},
       o \in {Options(FALSE, FALSE), Options(TRUE, TRUE)} :
        c = Call([Property(Name("Identifier", "x"), t) EXCEPT !.questionToken = q],
                 e, o, TRUE)

\* The calls whose resolved type ranges over all type handles.
IsEnumCall(c) ==
    \E h \in TypeHandles,
       e \in {ExplicitOf({}), ExplicitOf({"enum"}), ExplicitOf({"isArray"})} :
        c = Call([Property(Name("Identifier", "x"), StringT) EXCEPT !.resolved = h],
                 e, Options(FALSE, FALSE), TRUE)

\* The calls whose documentation ranges over all comments and examples.
IsDocCall(c) ==
    \E d \in Docs,
       e \in {ExplicitOf({}), ExplicitOf({"example"}), ExplicitOf({"examples"}),
              ExplicitOf({"description"}), ExplicitOf({"example", "examples"})},
       o \in AllOptions, sf \in BOOLEAN :
        c = Call([Property(Name("Identifier", "x"), StringT) EXCEPT !.doc = d],
                 e, o, sf)

\* The calls whose initializer ranges over none, a literal and an assertion.
IsInitializerCall(c) ==
    \E i \in {NoInitializer, [kind |-> "literal", text |-> "3", expression |-> ""],
               [kind |-> "as", text |-> "5 as any", expression |-> "5"]},
       e \in {ExplicitOf({}), ExplicitOf({"default"})} :
        c = Call([Property(Name("Identifier", "x"), StringT) EXCEPT !.initializer = i],
                 e, Options(FALSE, FALSE), TRUE)

NoCall == Call(Property(Name("none", ""), AbsentT), <<>>, EmptyOptions, FALSE)

(***************************************************************************)
(* Class scan: visitClassNode visits the members of one class declaration  *)
(* in order with propertyNodeVisitorFactory(metadata), then attaches the   *)
(* metadata factory.  metadata is the ClassMetadata object as the sequence *)
(* of its [name, expr] entries in insertion order.                         *)
(***************************************************************************)
NoProvider == [attached |-> FALSE, returns |-> <<>>]

\* metadata[propertyName] = objectLiteral
setProperty(md, propertyName, objectLiteral) ==
    IF \E i \in DOMAIN md : md[i].name = propertyName
    THEN [i \in DOMAIN md |->
             IF md[i].name = propertyName
             THEN [name |-> propertyName, expr |-> objectLiteral]
             ELSE md[i]]
    ELSE Append(md, [name |-> propertyName, expr |-> objectLiteral])

\* Mutant: a computed name is not told from a simple one.
addClassMetadataAnyName(node, objectLiteral, hostClassName, md) ==
    IF hostClassName = ""
    THEN md
    ELSE IF node.name.kind = "none" \/ node.name.text = ""
    THEN md
    ELSE setProperty(md, node.name.text, objectLiteral)

\* Mutant: the name of the host class is not looked at.
addClassMetadataAnyClass(node, objectLiteral, hostClassName, md) ==
    IF node.name.kind = "none" \/ node.name.text = ""
          \/ node.name.kind = "ComputedPropertyName"
    THEN md
    ELSE setProperty(md, node.name.text, objectLiteral)

addClassMetadata(node, objectLiteral, hostClassName, md) ==
    IF hostClassName = ""
    THEN md
    ELSE IF node.name.kind = "none" \/ node.name.text = ""
            \/ node.name.kind = "ComputedPropertyName"
    THEN md
    ELSE setProperty(md, node.name.text, objectLiteral)

\* [raised, metadata]: raised when building the record raised.
inspectPropertyDeclaration(node, opts, hostClassName, md) ==
    LET objectLiteralExpr == createDecoratorObjectLiteralExpr(node, <<>>, opts, TRUE)
    IN IF ~objectLiteralExpr.ok
       THEN [raised |-> TRUE, metadata |-> md]
       ELSE [raised |-> FALSE,
             metadata |-> addClassMetadata(node, objectLiteralExpr.val, hostClassName, md)]

\* Mutant: an error of inspectPropertyDeclaration is not caught.
propertyNodeVisitorNoCatch(node, opts, hostClassName, md) ==
    IF node.kind # "PropertyDeclaration"
    THEN [raised |-> FALSE, metadata |-> md]
    ELSE IF getDecoratorOrUndefinedByNames({"ApiHideProperty"}, node.decorators).some
    THEN [raised |-> FALSE, metadata |-> md]
    ELSE IF "static" \in node.modifiers
    THEN [raised |-> FALSE, metadata |-> md]
    ELSE inspectPropertyDeclaration(node, opts, hostClassName, md)

\* The visitor of one class member; raised tells whether an error leaves it.
propertyNodeVisitor(node, opts, hostClassName, md) ==
    IF node.kind # "PropertyDeclaration"
    THEN [raised |-> FALSE, metadata |-> md]
    ELSE IF getDecoratorOrUndefinedByNames({"ApiHideProperty"}, node.decorators).some
    THEN [raised |-> FALSE, metadata |-> md]
    ELSE IF "static" \in node.modifiers
    THEN [raised |-> FALSE, metadata |-> md]
    ELSE LET inspected == inspectPropertyDeclaration(node, opts, hostClassName, md)
         IN IF inspected.raised
            THEN [raised |-> FALSE, metadata |-> md]
            ELSE [raised |-> FALSE, metadata |-> inspected.metadata]

addMetadataFactory(classMetadata) ==
    [attached |-> TRUE,
     returns |-> [i \in DOMAIN classMetadata |-> classMetadata[i]]]

ClassMembers ==
    LET x == Name("Identifier", "x")
        y == Name("Identifier", "y")
        documented(node) ==
            [node EXCEPT !.doc = [comments |-> "text", examples |-> <<Scalar("1")>>],
                         !.decorators = <<Decorator("Min", <<"1">>)>>]
    IN { Property(x, StringT),
         documented(Property(x, UnionType(<<StringT, NullT>>, "Object"))),
         [Property(y, CatT) EXCEPT !.questionToken = TRUE, !.modifiers = {"readonly"}],
         Property(x, ThrowT),
         Property(y, TypeLiteral(<<Signature(x, FALSE, StringT),
                                   Signature(y, FALSE, ThrowT)>>)),
         Property(y, TypeLiteral(<<Signature(x, FALSE, StringT)>>)),
         [Property(x, StringT) EXCEPT
             !.decorators = <<Decorator("ApiHideProperty", <<>>)>>],
         [Property(y, StringT) EXCEPT !.modifiers = {"static"}],
         Property(Name("ComputedPropertyName", "[key]"), StringT),
         Property(Name("none", ""), StringT),
         Property(Name("StringLiteral", "'z'"), StringT),
         [Property(y, StringT) EXCEPT !.kind = "MethodDeclaration"] }

Init ==
    /\ pc = "scan"
    /\ className \in {"", "Cat"}
    /\ options \in {Options(FALSE, FALSE), Options(TRUE, TRUE)}
    /\ members = <<>>
    /\ metadata = <<>>
    /\ provider = NoProvider
    /\ call = NoCall
    /\ ret = Throw

\* ts.visitEachChild calls the visitor on the next member of the class.
VisitMember ==
    /\ pc = "scan"
    /\ Len(members) < MaxProps
    /\ \E node \in ClassMembers :
          LET visited == propertyNodeVisitor(node, options, className, metadata)
          IN /\ members' = Append(members, node)
             /\ metadata' = visited.metadata
             /\ pc' = IF visited.raised THEN "aborted" ELSE "scan"
    /\ UNCHANGED <<className, options, provider, call, ret>>

\* All members are visited: visitClassNode attaches the metadata factory.
AddMetadataFactory ==
    /\ pc = "scan"
    /\ provider' = addMetadataFactory(metadata)
    /\ pc' = "done"
    /\ UNCHANGED <<className, options, members, metadata, call, ret>>

Next == VisitMember \/ AddMetadataFactory

Spec == Init /\ [][Next]_vars

(***************************************************************************)
(* Calls of the public method createDecoratorObjectLiteralExpr             *)
(***************************************************************************)
InitExpr ==
    /\ pc = "call"
    /\ \/ IsPrecedenceCall(call)
       \/ IsTypeCall(call)
       \/ IsEnumCall(call)
       \/ IsDocCall(call)
       \/ IsInitializerCall(call)
    /\ ret = Throw
    /\ className = ""
    /\ options = EmptyOptions
    /\ members = <<>>
    /\ metadata = <<>>
    /\ provider = NoProvider

ApplyExpr ==
    /\ pc = "call"
    /\ ret' = createDecoratorObjectLiteralExpr(
                  call.node, call.existingProperties, call.options, call.sourceFile)
    /\ pc' = "return"
    /\ UNCHANGED <<className, options, members, metadata, provider, call>>

NextExpr == ApplyExpr

SpecExpr == InitExpr /\ [][NextExpr]_vars

(***************************************************************************)
(* Observations on a returned record                                       *)
(***************************************************************************)
returned == pc = "return" /\ ret.ok

EntriesFor(expr, keys) == SelectSeq(expr, LAMBDA e : e.key \in keys)

HasKey(expr, key) == \E i \in DOMAIN expr : expr[i].key = key

IsExplicit(key) == \E i \in DOMAIN call.existingProperties :
                       call.existingProperties[i].key = key

\* What the resolvers and enrichers appended after the explicit annotations.
Contributed == SubSeq(ret.val, Len(call.existingProperties) + 1, Len(ret.val))

IsNullVariant(type) == type.kind = "NullKeyword" \/ type.text = "null"

NonNullVariants(type) == SelectSeq(type.types, LAMBDA t : ~IsNullVariant(t))

Reference(name) == Val("arrow", name)

IsName(ref) == ref \notin {"<notype>", "<noref>", "<throw>"}

NullableTrue == Entry("nullable", Val("bool", "true"))

\* C1: every key of the explicit annotations has exactly one entry in the
\* final record, and that entry is the explicit one.
C1_ExplicitPrecedence ==
    returned =>
        \A i \in DOMAIN call.existingProperties :
            EntriesFor(ret.val, {call.existingProperties[i].key})
                = <<call.existingProperties[i]>>

\* C2: a union with two or more members besides the null variant gives a
\* final record without a 'type' key, unless 'type' is explicit.
C2_MultiVariantNoType ==
    (/\ returned
     /\ call.node.type.kind = "UnionType"
     /\ Len(call.node.type.types) - (IF \E i \in DOMAIN call.node.type.types :
                                           IsNullVariant(call.node.type.types[i])
                                     THEN 1 ELSE 0) >= 2
     /\ ~IsExplicit("type"))
        => ~HasKey(ret.val, "type")

\* C2 as amended: for such a union no 'nullable' is contributed and 'type' is
\* what the oracle gives for the whole union expression: nothing when it
\* yields no type or no reference, the normalised reference otherwise.
C2_MultiVariantFallsThrough ==
    (/\ returned
     /\ call.node.type.kind = "UnionType"
     /\ Len(call.node.type.types) - (IF \E i \in DOMAIN call.node.type.types :
                                           IsNullVariant(call.node.type.types[i])
                                     THEN 1 ELSE 0) >= 2)
        => EntriesFor(Contributed, {"type", "nullable"})
             = IF IsExplicit("type") \/ ~IsName(call.node.type.ref)
               THEN <<>>
               ELSE <<Entry("type", Reference(replaceImportPath(call.node.type.ref)))>>

C2_Witness ==
    /\ returned
    /\ call.node.type.kind = "UnionType"
    /\ Len(call.node.type.types) = 3
    /\ Len(NonNullVariants(call.node.type)) = 2
    /\ call.node.type.ref = "Object"
    /\ EntriesFor(ret.val, {"type", "nullable"}) = <<Entry("type", Reference("Object"))>>

\* C3: for a union of one member T and a null variant, with 'type' not
\* explicit, the type resolver contributes what resolving T alone gives
\* (type = Reference(T) when the oracle names T) followed by nullable = true;
\* for a union of a single member that is not null, no 'nullable'.
C3_NullableUnwrap ==
    (returned /\ call.node.type.kind = "UnionType" /\ ~IsExplicit("type")) =>
        LET type == call.node.type
            nonNull == NonNullVariants(type)
            resolved == EntriesFor(Contributed, {"type", "nullable"})
        IN /\ (Len(type.types) = 2 /\ Len(nonNull) = 1) =>
                 /\ resolved = createTypePropertyAssignments(
                                   nonNull[1], call.existingProperties).val
                                 \o <<NullableTrue>>
                 /\ (nonNull[1].kind \notin {"UnionType", "TypeLiteral"}
                        /\ IsName(nonNull[1].ref)) =>
                       resolved = <<Entry("type", Reference(
                                       replaceImportPath(nonNull[1].ref))),
                                    NullableTrue>>
           /\ (Len(type.types) = 1 /\ Len(nonNull) = 1) =>
                 /\ ~HasKey(resolved, "nullable")
                 /\ resolved = createTypePropertyAssignments(
                                   nonNull[1], call.existingProperties).val

C3_Witness ==
    /\ returned
    /\ call.node.type = UnionType(<<NullT, CatT>>, "Object")
    /\ call.existingProperties = <<>>
    /\ EntriesFor(ret.val, {"type", "nullable"})
         = <<Entry("type", Reference("require(p).Cat")), NullableTrue>>

(***************************************************************************)
(* Observations on the class scan                                          *)
(***************************************************************************)
IsHidden(node) == \E i \in DOMAIN node.decorators :
                      node.decorators[i].name = "ApiHideProperty"

IsScanned(node) ==
    node.kind = "PropertyDeclaration" /\ ~IsHidden(node) /\ "static" \notin node.modifiers

Raises(node) ==
    IsScanned(node) /\ ~createDecoratorObjectLiteralExpr(node, <<>>, options, TRUE).ok

HasSimpleName(node) ==
    node.name.kind \notin {"ComputedPropertyName", "none"} /\ node.name.text # ""

\* C4: a member whose resolution raises (at the top level or in a nested
\* object-literal member) leaves the map as it was, the error does not leave
\* the scan, the scan goes on, and the members that resolve, before or after
\* it, have their entries.
C4_FailureIsolation ==
    /\ [](pc # "aborted")
    /\ [][(Len(members') = Len(members) + 1 /\ Raises(members'[Len(members')]))
            => (metadata' = metadata /\ pc' = "scan")]_vars
    /\ [](className # "" =>
            \A i \in DOMAIN members :
                (IsScanned(members[i]) /\ ~Raises(members[i]) /\ HasSimpleName(members[i]))
                    => \E j \in DOMAIN metadata : metadata[j].name = members[i].name.text)

C4_Witness ==
    /\ className # ""
    /\ Len(members) = 3
    /\ ~Raises(members[1]) /\ IsScanned(members[1]) /\ HasSimpleName(members[1])
    /\ Raises(members[2]) /\ members[2].type.kind = "TypeLiteral"
    /\ ~Raises(members[3]) /\ IsScanned(members[3]) /\ HasSimpleName(members[3])
    /\ members[2].name.text = members[3].name.text
    /\ members[1].name.text # members[3].name.text
    /\ Len(metadata) = 2
    /\ pc = "done"

\* C5: every entry of the map is keyed by the name of a member that is a
\* property, not hidden, not static and not of a computed or absent name, and
\* holds the record of such a member.
C5_ScannerFiltering ==
    \A j \in DOMAIN metadata :
        \E i \in DOMAIN members :
            /\ IsScanned(members[i])
            /\ HasSimpleName(members[i])
            /\ metadata[j].name = members[i].name.text
            /\ metadata[j].expr
                 = createDecoratorObjectLiteralExpr(members[i], <<>>, options, TRUE).val

C5_Witness ==
    /\ Len(members) = 3
    /\ \E i \in DOMAIN members : IsHidden(members[i])
    /\ \E i \in DOMAIN members :
          "static" \in members[i].modifiers \/ members[i].name.kind = "ComputedPropertyName"
    /\ \E i \in DOMAIN members : IsScanned(members[i]) /\ HasSimpleName(members[i])
    /\ Len(metadata) = 1
    /\ pc = "done"

\* C6: for a class without a name the map stays empty and no metadata
\* provider is attached to the class.
C6_UnnamedNoSideEffect ==
    className = "" => (metadata = <<>> /\ ~provider.attached)

\* C6 as amended: for a class without a name the map stays empty, and the
\* metadata provider attached to the class once its members are visited
\* returns an empty map.
C6_UnnamedEmptyProvider ==
    className = "" =>
        /\ metadata = <<>>
        /\ pc = "done" => (provider.attached /\ provider.returns = <<>>)

C6_Witness ==
    /\ className = ""
    /\ pc = "done"
    /\ \E i \in DOMAIN members :
          IsScanned(members[i]) /\ HasSimpleName(members[i]) /\ ~Raises(members[i])
    /\ provider.attached

(***************************************************************************)
(* Enum resolver                                                           *)
(***************************************************************************)
EnumContribution == EntriesFor(Contributed, {"enum", "isArray"})

EnumReference(enum) == Entry("enum", Val("identifier", replaceImportPath(enum.name)))

IsArrayTrue == Entry("isArray", Val("identifier", "true"))

IsArrayOfEnum(type) ==
    type.k = "array" /\ Len(type.types) = 1 /\ type.types[1].k = "enum"

\* C7: an array of enum E gives enum = Reference(E) and isArray = true, also
\* when it is a constituent, at any position, of an auto-generated union.
C7_ArrayOfEnumAnyPosition ==
    (returned /\ ~IsExplicit("enum")) =>
        LET type == call.node.resolved
        IN /\ IsArrayOfEnum(type) =>
                 EnumContribution = <<EnumReference(type.types[1]), IsArrayTrue>>
           /\ type.k = "typeUnion" =>
                 \A i \in DOMAIN type.types :
                     (/\ IsArrayOfEnum(type.types[i])
                      /\ \A j \in DOMAIN type.types \ {i} : ~IsArrayOfEnum(type.types[j]))
                         => EnumContribution
                              = <<EnumReference(type.types[i].types[1]), IsArrayTrue>>

\* C7 as amended: the same, when the array is the last constituent of the
\* auto-generated union.
C7_ArrayOfEnumLastPosition ==
    (returned /\ ~IsExplicit("enum")) =>
        LET type == call.node.resolved
        IN /\ IsArrayOfEnum(type) =>
                 EnumContribution = <<EnumReference(type.types[1]), IsArrayTrue>>
           /\ (type.k = "typeUnion" /\ IsArrayOfEnum(type.types[Len(type.types)])) =>
                 EnumContribution
                   = <<EnumReference(type.types[Len(type.types)].types[1]), IsArrayTrue>>

C7_Witness ==
    /\ returned
    /\ call.node.resolved = TypeUnion(<<UndefinedType, ArrayOf(ImportedRoleE)>>)
    /\ EnumContribution
         = <<Entry("enum", Val("identifier", "require(p).Role")), IsArrayTrue>>

\* C9: an array whose element type is found to be an enum only by the second
\* detection pass gives the enum reference and isArray = true.
C9_IsArrayKeptAfterSecondPass ==
    (/\ returned
     /\ ~IsExplicit("enum")
     /\ call.node.resolved.k = "array"
     /\ Len(call.node.resolved.types) = 1
     /\ call.node.resolved.types[1].k = "enumUnion")
        => EnumContribution
             = <<EnumReference(call.node.resolved.types[1].types[1]), IsArrayTrue>>

(***************************************************************************)
(* Documentation enricher                                                  *)
(***************************************************************************)
EnrichmentEnabled == call.options.introspectComments /\ call.sourceFile

ExampleCardinality ==
    (EnrichmentEnabled /\ ~IsExplicit("example") /\ ~IsExplicit("examples")) =>
        LET examples == call.node.doc.examples
            found == EntriesFor(ret.val, {"example", "examples"})
        IN /\ Len(examples) = 0 => found = <<>>
           /\ Len(examples) = 1 =>
                 found = <<Entry("example", createLiteralFromAnyValue(examples[1]))>>
           /\ Len(examples) >= 2 =>
                 /\ Len(found) = 1
                 /\ found[1].key = "examples"
                 /\ found[1].val.tag = "array"
                 /\ Len(found[1].val.elems) = Len(examples)
                 /\ \A i \in DOMAIN examples :
                       found[1].val.elems[i] = createLiteralFromAnyValue(examples[i])

\* C8: with enrichment enabled and neither key explicit, no extracted example
\* gives neither key, one gives 'example' alone, two or more give 'examples'
\* alone, in order; no final record holds both 'example' and 'examples'.
C8_ExampleCardinality ==
    returned =>
        /\ ExampleCardinality
        /\ ~(HasKey(ret.val, "example") /\ HasKey(ret.val, "examples"))

\* C8 as amended: the same, but a final record holds both 'example' and
\* 'examples' only when both are explicit annotations.
C8_ExampleCardinalityUnlessExplicit ==
    returned =>
        /\ ExampleCardinality
        /\ (HasKey(ret.val, "example") /\ HasKey(ret.val, "examples"))
               => (IsExplicit("example") /\ IsExplicit("examples"))
        /\ Len(EntriesFor(ret.val, {"example"})) <= 1
        /\ Len(EntriesFor(ret.val, {"examples"})) <= 1

C8_Witness ==
    /\ returned
    /\ EnrichmentEnabled
    /\ call.existingProperties = <<>>
    /\ Len(call.node.doc.examples) = 2
    /\ call.node.doc.examples[1] # call.node.doc.examples[2]
    /\ HasKey(ret.val, "examples")
    /\ ~HasKey(ret.val, "example")

(***************************************************************************)
(* Nested inline object literals                                           *)
(***************************************************************************)
EnricherKeys ==
    {"description", "example", "examples", "minimum", "maximum", "minLength", "maxLength"}

\* The record of a member holds an enricher's key only as an explicit annotation.
NoEnricherContribution(expr) ==
    \A i \in DOMAIN expr : expr[i].key \in EnricherKeys => expr[i].val.tag = "explicit"

RECURSIVE IsNestedSchema(_, _)
IsNestedSchema(type, val) ==
    /\ val.tag = "arrowObject"
    /\ Len(val.mem) = Len(type.members)
    /\ \A i \in DOMAIN type.members :
          /\ val.mem[i].name = type.members[i].name.text
          /\ NoEnricherContribution(val.mem[i].expr)
          /\ type.members[i].type.kind = "TypeLiteral" =>
                LET inner == EntriesFor(val.mem[i].expr, {"type"})
                IN Len(inner) = 1 /\ IsNestedSchema(type.members[i].type, inner[1].val)

\* C10: an inline object-literal type, with 'type' not explicit, contributes
\* one 'type' entry holding one record per member, in member order and keyed
\* by the member's name, and no member's record, at any depth, holds a key
\* contributed by the documentation or validation enrichers.
C10_NestedSchema ==
    (returned /\ call.node.type.kind = "TypeLiteral" /\ ~IsExplicit("type")) =>
        LET contributed == EntriesFor(Contributed, {"type", "nullable"})
        IN /\ Len(contributed) = 1
           /\ contributed[1].key = "type"
           /\ IsNestedSchema(call.node.type, contributed[1].val)

C10_Witness ==
    /\ returned
    /\ call.options = Options(TRUE, TRUE)
    /\ call.sourceFile
    /\ call.node.type.kind = "TypeLiteral"
    /\ Len(call.node.type.members) = 2
    /\ call.node.type.members[1].type.kind = "TypeLiteral"
    /\ Len(call.node.type.members[1].type.members) = 2
    /\ call.existingProperties = <<>>
    /\ HasKey(ret.val, "type")

====
